---- MODULE Spec2Model ----
(***************************************************************************)
(* The equation solver of backend/app.py: solve_equation, the two          *)
(* functools.lru_cache wrappers it goes through (parse_equation, 256       *)
(* entries; _solve_cached, 128 entries) and the /solve endpoint in front   *)
(* of it.                                                                  *)
(*                                                                         *)
(* A text is a sequence of lexemes.  " " is whitespace and "=" the equals  *)
(* sign; "x" and "y" are symbol names and "1" an integer literal; "(" is   *)
(* a parenthesis that is never closed; "cos(x)" is a transcendental        *)
(* factor in x; "exec" stands for a call such as exec("raise SystemExit"), *)
(* which sympy's parse_expr hands to eval().  sympy itself (parse_expr,    *)
(* Eq, solve, sympify) is outside the repository: parse_expr and solve     *)
(* below are deterministic stand-ins that keep what app.py reads from the  *)
(* library: whether the call returned or raised, the class of what it      *)
(* raised, the free symbols, whether the solution collection is empty,     *)
(* and the text of the answer.                                             *)
(***************************************************************************)
EXTENDS Naturals, Sequences, FiniteSets

\* ------------------------------------------------------------------ bounds
\* Cache capacities, scaled down from maxsize=256 (app.py:25) and
\* maxsize=128 (app.py:35) so that a full cache and an eviction are reached.
ParseMaxsize == 3
SolveMaxsize == 2
\* Longest text of the single-call specification.
MaxLen == 3
\* Concurrent callers of the interleaving specification.
NThreads == 2

Lexemes == {" ", "=", "x", "y", "1", "(", "cos(x)", "exec"}

RECURSIVE TextsUpTo(_)
TextsUpTo(n) ==
    IF n = 0 THEN {<<>>}
    ELSE LET shorter == TextsUpTo(n - 1)
         IN  shorter \cup {Append(t, c) : t \in shorter, c \in Lexemes}

\* The strings of the multi-call specification: more results than
\* _solve_cached's cache holds and more sides than parse_equation's, a
\* string whose right side does not parse, one that sympy cannot solve, one
\* without symbols, one the tokenizer rejects and one whose evaluation exits.
Queries ==
    { <<"x", "=", "1">>,
      <<"x", "=", "y">>,
      <<" ", "x">>,
      <<"x", "y", "=", "1">>,
      <<"x", "=", "=", "1">>,
      <<"x", "=", "cos(x)">>,
      <<"1">>,
      <<"(">>,
      <<"exec">> }

\* Strings of the single-call specification longer than MaxLen: whitespace
\* around both sides, and an identity in two variables.
LongTexts ==
    { <<" ", "x", " ", "=", " ", "1", " ">>,
      <<"x", "y", "=", "x", "y">> }

\* ------------------------------------------------------- str operations
Contains(t, c) == \E i \in 1..Len(t) : t[i] = c

RECURSIVE lstrip(_)
lstrip(t) == IF t # <<>> /\ Head(t) = " " THEN lstrip(Tail(t)) ELSE t

RECURSIVE rstrip(_)
rstrip(t) ==
    IF t # <<>> /\ t[Len(t)] = " " THEN rstrip(SubSeq(t, 1, Len(t) - 1)) ELSE t

\* str.strip()
strip(t) == rstrip(lstrip(t))

FirstIndex(t, c) == CHOOSE i \in 1..Len(t) : t[i] = c /\ \A j \in 1..(i - 1) : t[j] # c

LastIndex(t, c) == CHOOSE i \in 1..Len(t) : t[i] = c /\ \A j \in (i + 1)..Len(t) : t[j] # c

SplitAt(t, i) == <<SubSeq(t, 1, i - 1), SubSeq(t, i + 1, Len(t))>>

\* A split at the last "=" instead of the first.
split_last(t) == SplitAt(t, LastIndex(t, "="))

\* equation_str.split("=", 1), for a text that contains "="
split(t) == SplitAt(t, FirstIndex(t, "="))

RECURSIVE join(_, _)
\* sep.join(items)
join(sep, items) ==
    IF items = <<>> THEN <<>>
    ELSE IF Len(items) = 1 THEN <<items[1]>>
    ELSE <<items[1], sep>> \o join(sep, Tail(items))

startswith(t, prefix) == Len(t) >= Len(prefix) /\ SubSeq(t, 1, Len(prefix)) = prefix

\* ----------------------------------------------------------- exceptions
\* The classes the two except clauses of solve_equation tell apart.
ParseClasses == {"ValueError", "SyntaxError", "TypeError"}

\* Subclasses of Exception; SystemExit derives from BaseException only.
ExceptionClasses == ParseClasses \cup {"TokenError", "NotImplementedError"}

Raised(cls) == [ok |-> FALSE, exc |-> cls]

Returned(v) == [ok |-> TRUE, val |-> v]

\* ------------------------------------------------ sympy (stand-ins)
Symbols(body) ==
    {c \in {"x", "y"} : Contains(body, c)}
        \cup (IF Contains(body, "cos(x)") THEN {"x"} ELSE {})

\* parse_expr(text, transformations=TRANSFORMATIONS).  The tokenizer runs
\* over the whole text first (an unclosed parenthesis: tokenize.TokenError),
\* then the code is compiled (nothing to compile, or an "=" in it:
\* SyntaxError), then evaluated (exec: SystemExit).
parse_expr(text) ==
    LET s == strip(text)
        body == SelectSeq(s, LAMBDA c : c # " ")
    IN  IF Contains(s, "(") THEN Raised("TokenError")
        ELSE IF s = <<>> \/ Contains(s, "=") THEN Raised("SyntaxError")
        ELSE IF Contains(s, "exec") THEN Raised("SystemExit")
        ELSE Returned([body |-> body, free_symbols |-> Symbols(body)])

\* Eq(left_expr, right_expr): sympy evaluates an equality of two identical
\* expressions to true on construction.
Eq(l, r) == [isEq |-> TRUE, lhs |-> l.body, rhs |-> r.body]

\* A bare expression, solved as expression = 0.
Bare(e) == [isEq |-> FALSE, lhs |-> e.body, rhs |-> <<"0">>]

\* solve(expr, ...): no solution for an identity (sympy returns []), no
\* algorithm for x = cos(x) (NotImplementedError), one or two roots otherwise.
solve(expr) ==
    IF expr.lhs = expr.rhs THEN Returned(<<>>)
    ELSE IF {expr.lhs, expr.rhs} = {<<"x">>, <<"cos(x)">>}
         THEN Raised("NotImplementedError")
    ELSE IF Len(expr.lhs) + Len(expr.rhs) >= 4 THEN Returned(<<"r1", "r2">>)
    ELSE Returned(<<"r1">>)

\* str(sympify(expr)) of an expression without symbols
sympify(expr) ==
    IF ~expr.isEq THEN expr.lhs
    ELSE IF expr.lhs = expr.rhs THEN <<"True">> ELSE <<"False">>

\* ------------------------------------------------------------ lru_cache
\* A cache is the sequence of its entries, least recently used first.
Index(cache, k) ==
    IF \E i \in 1..Len(cache) : cache[i].key = k
    THEN CHOOSE i \in 1..Len(cache) : cache[i].key = k
    ELSE 0

Keys(cache) == {cache[i].key : i \in 1..Len(cache)}

\* A hit moves the entry to the most recently used end.
Touch(cache, i) ==
    SubSeq(cache, 1, i - 1) \o SubSeq(cache, i + 1, Len(cache)) \o <<cache[i]>>

\* An insertion that never evicts.
StoreUnbounded(cache, k, v, maxsize) == Append(cache, [key |-> k, val |-> v])

\* An insertion that does not look whether the key is there by now.
StoreNoRecheck(cache, k, v, maxsize) ==
    IF Len(cache) >= maxsize THEN Tail(cache) \o <<[key |-> k, val |-> v]>>
    ELSE Append(cache, [key |-> k, val |-> v])

\* The insertion after a miss: nothing when the key is there by now (a
\* concurrent caller stored it), the oldest entry out when the cache is full.
Store(cache, k, v, maxsize) ==
    IF Index(cache, k) # 0 THEN cache
    ELSE IF Len(cache) >= maxsize THEN Tail(cache) \o <<[key |-> k, val |-> v]>>
    ELSE Append(cache, [key |-> k, val |-> v])

\* ------------------------------------------------------------- app.py
NoCall == [kind |-> "none", text |-> <<>>]

\* Line 105: the endpoint's answer when the parameter is missing or blank.
MissingParameter == [kind |-> "error", text |-> <<"Missing 'equation' query parameter">>]

\* out is what a call of solve_equation left.
IsCoreCall(out) == out # NoCall /\ out # MissingParameter

\* parse_equation behind @lru_cache(maxsize=256), lines 25-32: a hit returns
\* the stored tuple without calling parse_expr; a miss calls it and stores
\* what it returned; an exception propagates and nothing is stored.
ParseHit(pcache, i) ==
    [cache |-> Touch(pcache, i), res |-> Returned(pcache[i].val), invoked |-> <<>>]

ParseMiss(pcache, equation_str, r) ==
    [cache |-> IF r.ok THEN Store(pcache, equation_str, r.val, ParseMaxsize) ELSE pcache,
     res |-> r, invoked |-> <<equation_str>>]

parse_equation(pcache, equation_str) ==
    IF Index(pcache, equation_str) # 0
    THEN ParseHit(pcache, Index(pcache, equation_str))
    ELSE ParseMiss(pcache, equation_str, parse_expr(equation_str))

\* sorted(free_symbols, key=str)
symbols_list(free_symbols) ==
    (IF "x" \in free_symbols THEN <<"x">> ELSE <<>>)
        \o (IF "y" \in free_symbols THEN <<"y">> ELSE <<>>)

\* The first symbol whatever their number.
variable_first(free_symbols) == symbols_list(free_symbols)[1]

\* variable = symbols_list[0] if len(symbols_list) == 1 else None
variable_of(free_symbols) ==
    IF Len(symbols_list(free_symbols)) = 1 THEN symbols_list(free_symbols)[1]
    ELSE "None"

\* The multi-variable answer without the test for an empty collection.
format_multi_unchecked(solutions) ==
    <<"result:", "[">> \o join(", ", solutions) \o <<"]">>

\* Lines 62-67: the text for solve(expr, variable, dict=False).  The answer
\* is a list here, so line 67 is line 66 for a single value.
format_single(variable, solutions) ==
    IF solutions = <<>> THEN <<"result:", "No solution found">>
    ELSE <<"result:", variable, " = ">> \o join(", ", solutions)

\* Lines 71-73: the text for solve(expr, free_symbols, dict=True).
format_multi(solutions) ==
    IF solutions = <<>> THEN <<"result:", "No solution found">>
    ELSE <<"result:", "[">> \o join(", ", solutions) \o <<"]">>

\* Lines 60-67: solve for the one variable.
solve_single(variable, solutions) ==
    [res |-> IF solutions.ok THEN Returned(format_single(variable, solutions.val))
             ELSE solutions,
     solved |-> <<[symbols |-> {variable}, dict |-> FALSE, reply |-> solutions]>>]

\* Lines 68-73: solve for all the variables together.
solve_multi(free_symbols, solutions) ==
    [res |-> IF solutions.ok THEN Returned(format_multi(solutions.val)) ELSE solutions,
     solved |-> <<[symbols |-> free_symbols, dict |-> TRUE, reply |-> solutions]>>]

\* Lines 51-73: the strategy chosen from the free symbols.
dispatch(expr, free_symbols) ==
    IF free_symbols = {}
    THEN [res |-> Returned(<<"result:">> \o sympify(expr)), solved |-> <<>>]
    ELSE IF variable_of(free_symbols) # "None"
    THEN solve_single(variable_of(free_symbols), solve(expr))
    ELSE solve_multi(free_symbols, solve(expr))

\* What one run of _solve_cached's body leaves behind.  handed: the texts
\* passed to parse_equation; invoked: those passed on to parse_expr.
Failed(cache, raised, texts, calls) ==
    [pcache |-> cache, res |-> raised, handed |-> texts, invoked |-> calls,
     solved |-> <<>>, phase |-> "parse"]

Dispatched(cache, d, texts, calls) ==
    [pcache |-> cache, res |-> d.res, handed |-> texts, invoked |-> calls,
     solved |-> d.solved, phase |-> IF d.res.ok THEN "none" ELSE "solve"]

\* Lines 44-46, once the left side is parsed.
AfterRight(L, R, left, right) ==
    IF ~R.res.ok THEN Failed(R.cache, R.res, <<left, right>>, L.invoked \o R.invoked)
    ELSE Dispatched(R.cache,
                    dispatch(Eq(L.res.val, R.res.val),
                             L.res.val.free_symbols \cup R.res.val.free_symbols),
                    <<left, right>>, L.invoked \o R.invoked)

\* Lines 43-44: an exception of the left side ends the call before the right
\* side is looked at.
AfterLeft(L, left, right) ==
    IF ~L.res.ok THEN Failed(L.cache, L.res, <<left>>, L.invoked)
    ELSE AfterRight(L, parse_equation(L.cache, right), left, right)

\* Line 49.
AfterWhole(P, equation_str) ==
    IF ~P.res.ok THEN Failed(P.cache, P.res, <<equation_str>>, P.invoked)
    ELSE Dispatched(P.cache, dispatch(Bare(P.res.val), P.res.val.free_symbols),
                    <<equation_str>>, P.invoked)

\* Lines 42-43: left.strip() and right.strip() go to parse_equation.
equation_sides(pcache, sides) ==
    AfterLeft(parse_equation(pcache, strip(sides[1])), strip(sides[1]), strip(sides[2]))

\* The body of _solve_cached, lines 41-73.
solve_body(pcache, equation_str) ==
    IF Contains(equation_str, "=")
    THEN equation_sides(pcache, split(equation_str))
    ELSE AfterWhole(parse_equation(pcache, equation_str), equation_str)

\* _solve_cached behind @lru_cache(maxsize=128), lines 35-38.
SolveHit(scache, pcache, i) ==
    [scache |-> Touch(scache, i), pcache |-> pcache, res |-> Returned(scache[i].val),
     handed |-> <<>>, invoked |-> <<>>, solved |-> <<>>, phase |-> "none"]

\* A miss that stores a failure too, as an error text.
SolveMissMemoErrors(scache, equation_str, b) ==
    [scache |-> Store(scache, equation_str,
                      IF b.res.ok THEN b.res.val ELSE <<"error:", b.res.exc>>,
                      SolveMaxsize),
     pcache |-> b.pcache,
     res |-> IF b.res.ok THEN b.res ELSE Returned(<<"error:", b.res.exc>>),
     handed |-> b.handed, invoked |-> b.invoked, solved |-> b.solved,
     phase |-> b.phase]

SolveMiss(scache, equation_str, b) ==
    [scache |-> IF b.res.ok THEN Store(scache, equation_str, b.res.val, SolveMaxsize)
                ELSE scache,
     pcache |-> b.pcache, res |-> b.res, handed |-> b.handed, invoked |-> b.invoked,
     solved |-> b.solved, phase |-> b.phase]

_solve_cached(scache, pcache, equation_str) ==
    IF Index(scache, equation_str) # 0
    THEN SolveHit(scache, pcache, Index(scache, equation_str))
    ELSE SolveMiss(scache, equation_str, solve_body(pcache, equation_str))

\* Lines 80-88: what solve_equation makes of what _solve_cached returned or
\* raised.  "raised": neither except clause matched and the exception left
\* solve_equation.
outcome(res) ==
    IF res.ok
    THEN IF startswith(res.val, <<"result:">>)
         THEN [kind |-> "result", text |-> Tail(res.val)]
         ELSE [kind |-> "error", text |-> res.val]
    ELSE IF res.exc \in ParseClasses
    THEN [kind |-> "error", text |-> <<"Invalid equation format: ", res.exc>>]
    ELSE IF res.exc \in ExceptionClasses
    THEN [kind |-> "error", text |-> <<"Error solving equation: ", res.exc>>]
    ELSE [kind |-> "raised", text |-> <<res.exc>>]

\* -------------------------------------------------------------- state
VARIABLES
    parseCache,   \* parse_equation's cache
    solveCache,   \* _solve_cached's cache
    called,       \* a call has been made
    input,        \* the last call: the string given to solve_equation
    output,       \* what it returned
    handed,       \* the texts it passed to parse_equation, in order
    invoked,      \* the texts that reached parse_expr, in order
    solved,       \* its calls of sympy's solve
    phase,        \* where it failed: "parse", "solve" or "none"
    status,       \* the HTTP status of the endpoint, 0 for a direct call
    again,        \* "no", or how the call ended when the call before it had
                  \* the same string: "same" (equal output) or "differs"
    pc, tin, todo, got, ret   \* the concurrent callers

seqVars == <<called, input, output, handed, invoked, solved, phase, status, again>>
concVars == <<pc, tin, todo, got, ret>>
vars == <<parseCache, solveCache, seqVars, concVars>>

Threads == 1..NThreads

Init ==
    /\ parseCache = <<>>
    /\ solveCache = <<>>
    /\ called = FALSE
    /\ input = <<>>
    /\ output = NoCall
    /\ handed = <<>>
    /\ invoked = <<>>
    /\ solved = <<>>
    /\ phase = "none"
    /\ status = 0
    /\ again = "no"
    /\ pc = [t \in Threads |-> "idle"]
    /\ tin = [t \in Threads |-> <<>>]
    /\ todo = [t \in Threads |-> <<>>]
    /\ got = [t \in Threads |-> <<>>]
    /\ ret = [t \in Threads |-> NoCall]

\* What a call of solve_equation leaves.
Record(equation_str, r, out) ==
    /\ solveCache' = r.scache
    /\ parseCache' = r.pcache
    /\ called' = TRUE
    /\ input' = equation_str
    /\ output' = out
    /\ handed' = r.handed
    /\ invoked' = r.invoked
    /\ solved' = r.solved
    /\ phase' = r.phase
    /\ again' = IF IsCoreCall(output) /\ input = equation_str
                THEN (IF out = output THEN "same" ELSE "differs")
                ELSE "no"
    /\ UNCHANGED concVars

Returning(equation_str, r) == Record(equation_str, r, outcome(r.res))

\* solve_equation(equation_str), lines 76-88, a call that runs alone.
solve_equation(equation_str) ==
    Returning(equation_str, _solve_cached(solveCache, parseCache, equation_str))

\* Lines 108-109; 0 when the exception left solve_equation and the view.
status_code(out) ==
    IF out.kind = "raised" THEN 0 ELSE IF out.kind = "error" THEN 400 ELSE 200

\* A direct call of solve_equation.
SolveEquation(s) ==
    /\ solve_equation(s)
    /\ status' = 0

\* GET /solve?equation=q, lines 101-109.
SolveEndpoint(q) ==
    IF strip(q) = <<>>
    THEN /\ called' = TRUE
         /\ input' = <<>>
         /\ output' = MissingParameter
         /\ again' = "no"
         /\ handed' = <<>>
         /\ invoked' = <<>>
         /\ solved' = <<>>
         /\ phase' = "none"
         /\ status' = 400
         /\ UNCHANGED <<parseCache, solveCache, concVars>>
    ELSE /\ solve_equation(strip(q))
         /\ status' = status_code(output')

Next == \E s \in Queries : SolveEquation(s)

Spec == Init /\ [][Next]_vars

\* One call from empty caches, on any text of at most MaxLen lexemes and
\* on LongTexts, directly or through the endpoint.
NextOnce ==
    \/ \E s \in TextsUpTo(MaxLen) \cup LongTexts : ~called /\ SolveEquation(s)
    \/ \E q \in TextsUpTo(MaxLen) \cup LongTexts : ~called /\ SolveEndpoint(q)

SpecOnce == Init /\ [][NextOnce]_vars

\* -------------------------------------------------- concurrent callers
\* lru_cache holds no lock while the wrapped function runs: a caller looks a
\* key up, computes on a miss, and stores afterwards; other callers run in
\* between.  pc: "idle" (no call in progress), "parse" (about to call
\* parse_equation on Head(todo)), "parsing" (inside parse_expr after a
\* miss), "solve" (both sides parsed, inside the rest of _solve_cached).
ConcQueries ==
    { <<" ", "x">>,
      <<"y">>,
      <<"x", "=", "1">>,
      <<"(">> }

\* The texts _solve_cached will pass to parse_equation, lines 41-49.
texts_of(equation_str) ==
    IF Contains(equation_str, "=")
    THEN <<strip(split(equation_str)[1]), strip(split(equation_str)[2])>>
    ELSE <<equation_str>>

\* Lines 45-49: the expression and its free symbols from the parsed sides.
dispatch_parsed(parsed) ==
    IF Len(parsed) = 2
    THEN dispatch(Eq(parsed[1], parsed[2]),
                  parsed[1].free_symbols \cup parsed[2].free_symbols)
    ELSE dispatch(Bare(parsed[1]), parsed[1].free_symbols)

Finish(t, out) ==
    /\ pc' = [pc EXCEPT ![t] = "idle"]
    /\ ret' = [ret EXCEPT ![t] = out]
    /\ todo' = [todo EXCEPT ![t] = <<>>]
    /\ got' = [got EXCEPT ![t] = <<>>]

Parsed(t, val) ==
    /\ got' = [got EXCEPT ![t] = Append(got[t], val)]
    /\ todo' = [todo EXCEPT ![t] = Tail(todo[t])]
    /\ pc' = [pc EXCEPT ![t] = IF Len(todo[t]) = 1 THEN "solve" ELSE "parse"]
    /\ UNCHANGED ret

\* solve_equation is entered: the lookup in _solve_cached's cache.
Begin(t, s) ==
    /\ pc[t] = "idle"
    /\ tin' = [tin EXCEPT ![t] = s]
    /\ IF Index(solveCache, s) # 0
       THEN /\ solveCache' = Touch(solveCache, Index(solveCache, s))
            /\ Finish(t, outcome(Returned(solveCache[Index(solveCache, s)].val)))
       ELSE /\ pc' = [pc EXCEPT ![t] = "parse"]
            /\ todo' = [todo EXCEPT ![t] = texts_of(s)]
            /\ got' = [got EXCEPT ![t] = <<>>]
            /\ ret' = [ret EXCEPT ![t] = NoCall]
            /\ UNCHANGED solveCache
    /\ UNCHANGED <<parseCache, seqVars>>

\* parse_equation is entered: the lookup in its cache.
ParseLookup(t) ==
    /\ pc[t] = "parse"
    /\ IF Index(parseCache, Head(todo[t])) # 0
       THEN /\ parseCache' = Touch(parseCache, Index(parseCache, Head(todo[t])))
            /\ Parsed(t, parseCache[Index(parseCache, Head(todo[t]))].val)
       ELSE /\ pc' = [pc EXCEPT ![t] = "parsing"]
            /\ UNCHANGED <<parseCache, todo, got, ret>>
    /\ UNCHANGED <<solveCache, tin, seqVars>>

ParseDone(t, r) ==
    IF r.ok
    THEN /\ parseCache' = Store(parseCache, Head(todo[t]), r.val, ParseMaxsize)
         /\ Parsed(t, r.val)
    ELSE /\ Finish(t, outcome(r))
         /\ UNCHANGED parseCache

\* parse_expr returns or raises, and the wrapper stores what it returned.
ParseReturn(t) ==
    /\ pc[t] = "parsing"
    /\ ParseDone(t, parse_expr(Head(todo[t])))
    /\ UNCHANGED <<solveCache, tin, seqVars>>

SolveDone(t, d) ==
    /\ Finish(t, outcome(d.res))
    /\ solveCache' = IF d.res.ok THEN Store(solveCache, tin[t], d.res.val, SolveMaxsize)
                     ELSE solveCache

\* The rest of _solve_cached returns or raises, and the wrapper stores what
\* it returned.
SolveReturn(t) ==
    /\ pc[t] = "solve"
    /\ SolveDone(t, dispatch_parsed(got[t]))
    /\ UNCHANGED <<parseCache, tin, seqVars>>

Step(t) == ParseLookup(t) \/ ParseReturn(t) \/ SolveReturn(t)

NextConc ==
    \E t \in Threads :
        \/ \E s \in ConcQueries : Begin(t, s)
        \/ ParseLookup(t)
        \/ ParseReturn(t)
        \/ SolveReturn(t)

SpecConc == Init /\ [][NextConc]_vars

\* ---------------------------------------------------------------- claims
\* The text before the first "=" of t and the text after it, read off t
\* itself.
BeforeFirstEq(t) ==
    SubSeq(t, 1, (CHOOSE i \in 1..Len(t) : t[i] = "=" /\ \A j \in 1..(i - 1) : t[j] # "=") - 1)

AfterFirstEq(t) ==
    SubSeq(t, (CHOOSE i \in 1..Len(t) : t[i] = "=" /\ \A j \in 1..(i - 1) : t[j] # "=") + 1,
           Len(t))

\* The free symbols of the texts the last call handed to the parser.
FreeOfHanded == UNION {Symbols(handed[i]) : i \in 1..Len(handed)}

\* The last call went through the body of _solve_cached and parsed its text.
Computed == IsCoreCall(output) /\ handed # <<>> /\ phase # "parse"

\* C1: for every input string solve_equation returns a mapping with exactly
\* one of the keys 'result' and 'error'; no failure of any kind leaves
\* solve_equation unhandled.
C1_NoFaultEscapes == IsCoreCall(output) => output.kind \in {"result", "error"}

\* C2: the error text starts with "Invalid equation format: " exactly when
\* the failure was raised while parsing a side, and with "Error solving
\* equation: " for every failure raised while evaluating or solving.
C2_PrefixByPhase ==
    IsCoreCall(output) /\ output.kind = "error" =>
        /\ (output.text[1] = "Invalid equation format: ") <=> (phase = "parse")
        /\ (output.text[1] = "Error solving equation: ") <=> (phase = "solve")

\* C3: a call of solve_equation with the string of the call before it returns
\* the same result, whether that is a result or an error, and does not call
\* parse_expr again.
C3_CacheTransparency == again # "no" => again = "same" /\ invoked = <<>>

\* C4 as claimed: an input with "=" is split at the first "=" and exactly the
\* two sides (trimmed) are parsed.
C4_BothSidesParsed ==
    IsCoreCall(output) /\ handed # <<>> /\ Contains(input, "=") =>
        handed = <<strip(BeforeFirstEq(input)), strip(AfterFirstEq(input))>>

\* C4 as amended: an input with "=" is split at the first "=" only.  The
\* trimmed text before it is parsed first; the trimmed text after it, further
\* "=" included, is parsed next unless parsing the left side raised, in which
\* case nothing else is parsed.  No third text is parsed and at most one
\* equation is solved.
C4_SplitAtFirstEquals ==
    IsCoreCall(output) /\ handed # <<>> /\ Contains(input, "=") =>
        /\ handed[1] = strip(BeforeFirstEq(input))
        /\ IF parse_expr(strip(BeforeFirstEq(input))).ok
           THEN handed = <<strip(BeforeFirstEq(input)), strip(AfterFirstEq(input))>>
           ELSE handed = <<strip(BeforeFirstEq(input))>> /\ phase = "parse"
        /\ Len(solved) <= 1

\* An input with two "=": the second one went to the parser inside the right
\* side.
C4_Witness ==
    /\ IsCoreCall(output)
    /\ Len(handed) = 2
    /\ Contains(handed[2], "=")
    /\ ~Contains(handed[1], "=")

\* C5: every text handed to the parser is trimmed of surrounding whitespace,
\* the two sides of an input with "=" and the whole input without one.
C5_ParserTextsTrimmed ==
    IsCoreCall(output) => \A i \in 1..Len(handed) : handed[i] = strip(handed[i])

\* The answer is <var> = v1, v2, ...
IsVarEquals(text, symbols) ==
    /\ Len(text) >= 3
    /\ Len(text) % 2 = 1
    /\ text[1] \in symbols
    /\ text[2] = " = "
    /\ \A i \in 3..Len(text) : (text[i] = ", ") <=> (i % 2 = 0)

\* C6: the strategy depends on the number of free symbols of both sides
\* only.  None: the value is returned, with no call of solve and no
\* "<var> =".  One: solve is called for that symbol, and an answer that is not
\* empty reads "<var> = v1, v2, ...".  Two or more: solve is called once for
\* all of them together, and no single variable is named in the answer.
C6_StrategyBySymbolCount ==
    Computed =>
        /\ FreeOfHanded = {} =>
              /\ solved = <<>>
              /\ output.kind = "result"
              /\ ~Contains(output.text, " = ")
        /\ Cardinality(FreeOfHanded) = 1 =>
              /\ Len(solved) = 1
              /\ solved[1].symbols = FreeOfHanded
              /\ ~solved[1].dict
              /\ (solved[1].reply.ok /\ solved[1].reply.val # <<>> =>
                     output.kind = "result" /\ IsVarEquals(output.text, FreeOfHanded))
        /\ Cardinality(FreeOfHanded) >= 2 =>
              /\ Len(solved) = 1
              /\ solved[1].symbols = FreeOfHanded
              /\ solved[1].dict
              /\ ~Contains(output.text, " = ")

\* Two free symbols, solved together, with an answer.
C6_Witness ==
    /\ Computed
    /\ FreeOfHanded = {"x", "y"}
    /\ Len(solved) = 1
    /\ solved[1].dict
    /\ output.kind = "result"
    /\ output.text # <<"No solution found">>

\* C7: whenever solve returns an empty collection, for one variable or for
\* several, solve_equation returns the result "No solution found".
C7_EmptyIsNoSolution ==
    \A i \in 1..Len(solved) :
        solved[i].reply.ok /\ solved[i].reply.val = <<>> =>
            output = [kind |-> "result", text |-> <<"No solution found">>]

\* solve returned an empty collection for two variables together.
C7_Witness ==
    /\ Len(solved) = 1
    /\ solved[1].dict
    /\ Cardinality(solved[1].symbols) = 2
    /\ solved[1].reply.ok
    /\ solved[1].reply.val = <<>>
    /\ output.text = <<"No solution found">>

\* C8: neither cache ever holds more entries than its capacity, and an
\* insertion into a full cache puts an entry out.
C8_CachesBounded ==
    [][/\ Len(parseCache') <= ParseMaxsize
       /\ Len(solveCache') <= SolveMaxsize
       /\ (Len(parseCache) = ParseMaxsize /\ ~(Keys(parseCache') \subseteq Keys(parseCache))
              => ~(Keys(parseCache) \subseteq Keys(parseCache')))
       /\ (Len(solveCache) = SolveMaxsize /\ ~(Keys(solveCache') \subseteq Keys(solveCache))
              => ~(Keys(solveCache) \subseteq Keys(solveCache')))]_vars

\* Both caches are full, and a stored result outlived the parsed sides it
\* was computed from: they were put out.
C8_Witness ==
    /\ Len(parseCache) = ParseMaxsize
    /\ Len(solveCache) = SolveMaxsize
    /\ \E i \in 1..Len(solveCache) :
          /\ Contains(solveCache[i].key, "=")
          /\ strip(BeforeFirstEq(solveCache[i].key)) \notin Keys(parseCache)

\* What a call on each string returns when it runs alone on empty caches.
Alone == [s \in ConcQueries |-> outcome(_solve_cached(<<>>, <<>>, s).res)]

\* What parse_expr makes of each side of those strings.
ParsedAlone ==
    [t \in UNION {{texts_of(s)[i] : i \in 1..Len(texts_of(s))} : s \in ConcQueries}
        |-> parse_expr(t)]

\* C9: under any interleaving of concurrent calls the caches stay sound: one
\* entry per key, within capacity, each holding what a computation of its
\* key alone produces; every caller gets the result it would get alone; and
\* a call in progress can always take its next step, whatever the others do.
C9_ConcurrentCachesSound ==
    /\ Cardinality(Keys(solveCache)) = Len(solveCache)
    /\ Cardinality(Keys(parseCache)) = Len(parseCache)
    /\ Len(solveCache) <= SolveMaxsize
    /\ Len(parseCache) <= ParseMaxsize
    /\ \A i \in 1..Len(solveCache) :
          outcome(Returned(solveCache[i].val)) = Alone[solveCache[i].key]
    /\ \A i \in 1..Len(parseCache) :
          Returned(parseCache[i].val) = ParsedAlone[parseCache[i].key]
    /\ \A t \in Threads :
          /\ ret[t] # NoCall => ret[t] = Alone[tin[t]]
          /\ pc[t] # "idle" => ENABLED Step(t)

\* Two callers missed on the same string; one has stored its result while
\* the other is still computing.
C9_Witness ==
    \E t, u \in Threads :
        /\ t # u
        /\ pc[t] = "solve"
        /\ tin[t] = tin[u]
        /\ ret[u] = Alone[tin[u]]
        /\ tin[t] \in Keys(solveCache)

\* Whether computing each string of Queries returns normally.
ReturnsNormally == [s \in Queries |-> solve_body(<<>>, s).res.ok]

\* C10: a call that ends in an error leaves _solve_cached's cache as it was;
\* a key is in that cache only if computing it returned normally, every
\* stored value starts with "result:", and an 'error' comes from an
\* exception only.
C10_FailuresNotMemoized ==
    [][/\ (IsCoreCall(output') /\ output'.kind # "result" => solveCache' = solveCache)
       /\ \A i \in 1..Len(solveCache') :
             /\ startswith(solveCache'[i].val, <<"result:">>)
             /\ ReturnsNormally[solveCache'[i].key]
       /\ (IsCoreCall(output') /\ output'.kind = "error" => phase' \in {"parse", "solve"})]_vars

\* A call failed on its right side: the left side is in the parser's cache,
\* the string is not in _solve_cached's, which holds earlier results.
C10_Witness ==
    /\ IsCoreCall(output)
    /\ output.kind = "error"
    /\ Len(handed) = 2
    /\ handed[1] \in Keys(parseCache)
    /\ input \notin Keys(solveCache)
    /\ solveCache # <<>>

====
